---------------------------- MODULE Spec2Model ----------------------------
(***************************************************************************)
(* A model of the document search engine: InvertedIndex (build, frequency  *)
(* queries, save/load), RankingModels (TF-IDF, VSM, BM25) and SearchEngine.*)
(*                                                                         *)
(* Python dicts keep insertion order, and the rankers' stable sort makes   *)
(* that order observable, so a dict is modelled as a sequence of           *)
(* [k |-> key, v |-> value] entries with distinct keys.                    *)
(* Floats are modelled in fixed point, in thousandths (Milli).             *)
(***************************************************************************)
EXTENDS Integers, Sequences, FiniteSets, TLC

(* ------------------------------ bounds --------------------------------- *)
\* add_document calls made on the instance
MaxCalls == 2
\* tokens handed to add_document, over all its calls
MaxTokens == 3
\* longest query
MaxQuery == 2
MaxResults == 2     \* max_results of a search
MaxDocs == 3        \* total_docs of a corpus given to the BM25 formula alone
MaxLength == 4      \* a document's length, and the sum of the lengths, given to it
MaxTf == 3          \* a term frequency given to it

Terms == {"a", "b"}
DocIds == {"d1", "d2"}

RECURSIVE SeqsUpTo(_, _)
SeqsUpTo(S, n) ==
  IF n = 0 THEN {<<>>}
  ELSE LET shorter == SeqsUpTo(S, n - 1)
       IN shorter \cup {Append(s, x) : s \in {t \in shorter : Len(t) = n - 1}, x \in S}

TokenSeqs == SeqsUpTo(Terms, MaxTokens)
Queries == SeqsUpTo(Terms, MaxQuery)

(* --------------------------- insertion-ordered dict -------------------- *)
Keys(d) == {d[i].k : i \in DOMAIN d}
Has(d, key) == key \in Keys(d)
Get(d, key) == d[CHOOSE i \in DOMAIN d : d[i].k = key].v
Put(d, key, val) ==
  IF Has(d, key)
  THEN [i \in DOMAIN d |-> IF d[i].k = key THEN [k |-> key, v |-> val] ELSE d[i]]
  ELSE Append(d, [k |-> key, v |-> val])

RECURSIVE SumSeq(_)
SumSeq(s) == IF s = <<>> THEN 0 ELSE Head(s) + SumSeq(Tail(s))
\* the values of a dict, in order
Values(d) == [i \in DOMAIN d |-> d[i].v]

Max(x, y) == IF x >= y THEN x ELSE y

(* ------------------------------ floats --------------------------------- *)
RECURSIVE GCD(_, _)
GCD(x, y) == IF y = 0 THEN x ELSE GCD(y, x % y)

\* ln(n) in thousandths, n = 1..20
LnTab == <<0, 693, 1099, 1386, 1609, 1792, 1946, 2079, 2197, 2303,
           2398, 2485, 2565, 2639, 2708, 2773, 2833, 2890, 2944, 2996>>
\* math.log(p / q) in thousandths, for p, q >= 1
Log(p, q) == LET g == GCD(p, q) IN LnTab[p \div g] - LnTab[q \div g]

(* ------------------------------ state ---------------------------------- *)
VARIABLES
  index,            \* InvertedIndex.index: term -> (doc_id -> positions)
  documents,        \* InvertedIndex.documents: doc_id -> metadata
  doc_lengths,      \* InvertedIndex.doc_lengths: doc_id -> token count
  total_docs,       \* InvertedIndex.total_docs
  vocabulary_size,  \* InvertedIndex.vocabulary_size
  disk,             \* the file at the index path
  pc,               \* "idle", or "saving" between open(path, 'wb') and the end of pickle.dump
  engine,           \* the SearchEngine built from the file (index_data and RankingModels)
  op,               \* the last operation
  arg,              \* its argument (a term, a query), "" when there is none to record
  ret,              \* its outcome: [exc |-> exception name or "", val |-> returned value]
  calls,            \* history: the number of add_document calls made on the instance
  used,             \* history: the number of tokens those calls handed in
  hist,             \* history: the add_document calls that built the current contents
  saved,            \* history: the instance as it was at the last completed save
  prev              \* history: while a save is writing, the file as it was when the save opened it

vars == <<index, documents, doc_lengths, total_docs, vocabulary_size, disk, pc,
          engine, op, arg, ret, calls, used, hist, saved, prev>>
fields == <<index, documents, doc_lengths, total_docs, vocabulary_size>>

Ok(v) == [exc |-> "", val |-> v]
Raise(e) == [exc |-> e, val |-> 0]
NoFile == [kind |-> "absent"]
NoEngine == [built |-> FALSE]
NoSave == [done |-> FALSE]

(* ---------------------------- InvertedIndex ---------------------------- *)
\* self.index[term][doc_id].append(position), on the nested defaultdict
IndexAppend(ix, term, doc, position) ==
  LET inner == IF Has(ix, term) THEN Get(ix, term) ELSE <<>>
      plist == IF Has(inner, doc) THEN Get(inner, doc) ELSE <<>>
  IN Put(ix, term, Put(inner, doc, Append(plist, position)))

\* for position, term in enumerate(processed_tokens): ... ; position is zero-based
RECURSIVE IndexTokens(_, _, _, _)
IndexTokens(ix, doc, tokens, n) ==
  IF n > Len(tokens) THEN ix
  ELSE IndexTokens(IndexAppend(ix, tokens[n], doc, n - 1), doc, tokens, n + 1)

\* (a variant that recounts the documents map instead)
TotalAfterAdd_Recount(n, docs) == Len(docs)
\* self.total_docs += 1, whatever the documents map holds
TotalAfterAdd(n, docs) == n + 1

\* the metadata handed in with a call
Metadata(doc, n) == [url |-> doc, title |-> n]

AddDocument ==
  /\ pc = "idle"
  /\ calls < MaxCalls
  /\ calls' = calls + 1
  /\ \E doc \in DocIds, tokens \in {t \in TokenSeqs : used + Len(t) <= MaxTokens} :
       /\ used' = used + Len(tokens)
       /\ documents' = Put(documents, doc, Metadata(doc, calls + 1))
       /\ doc_lengths' = Put(doc_lengths, doc, Len(tokens))
       /\ index' = IndexTokens(index, doc, tokens, 1)
       /\ total_docs' = TotalAfterAdd(total_docs, documents')
       /\ hist' = Append(hist, [doc |-> doc, tokens |-> tokens])
  /\ op' = "add_document"
  /\ arg' = ""
  /\ ret' = Ok(0)
  /\ UNCHANGED <<vocabulary_size, disk, pc, engine, saved, prev>>

\* self.index[term] on a defaultdict: a missing term is inserted with an empty posting map
Lookup(ix, term) == IF Has(ix, term) THEN ix ELSE Append(ix, [k |-> term, v |-> <<>>])

\* (a variant that counts the term's positions instead of its documents)
DocumentFrequency_Positions(ix, term) ==
  SumSeq([j \in DOMAIN Get(Lookup(ix, term), term) |-> Len(Get(Lookup(ix, term), term)[j].v)])
\* len(self.index[term])
DocumentFrequency(ix, term) == Len(Get(Lookup(ix, term), term))

GetDocumentFrequency ==
  /\ pc = "idle"
  /\ \E term \in Terms :
       /\ index' = Lookup(index, term)
       /\ ret' = Ok(DocumentFrequency(index, term))
       /\ arg' = term
  /\ op' = "get_document_frequency"
  /\ UNCHANGED <<documents, doc_lengths, total_docs, vocabulary_size, disk, pc,
                 engine, calls, used, hist, saved, prev>>

\* get_tf_idf: 0 for a term that is no key; else log(total_docs / df), which divides by df
Idf(ix, n, term) ==
  IF ~Has(ix, term) THEN Ok(0)
  ELSE LET df == Len(Get(ix, term))
       IN IF df = 0 THEN Raise("ZeroDivisionError")
          ELSE IF n = 0 THEN Raise("ValueError")
          ELSE Ok(Log(n, df))

GetTfIdf ==
  /\ pc = "idle"
  /\ \E term \in Terms :
       /\ ret' = Idf(index, total_docs, term)
       /\ arg' = term
  /\ op' = "get_tf_idf"
  /\ UNCHANGED <<fields, disk, pc, engine, calls, used, hist, saved, prev>>

\* the position lists of the whole index, flattened to their lengths
PostingCounts(ix) == [i \in DOMAIN ix |-> SumSeq([j \in DOMAIN ix[i].v |-> Len(ix[i].v[j].v)])]

Statistics(ix, lens, n) ==
  [total_documents |-> n,
   vocabulary_size |-> Len(ix),
   average_document_length |-> (1000 * SumSeq(Values(lens))) \div Max(1, n),
   total_terms |-> SumSeq(PostingCounts(ix))]

GetStatistics ==
  /\ pc = "idle"
  /\ ret' = Ok(Statistics(index, doc_lengths, total_docs))
  /\ op' = "get_statistics"
  /\ arg' = ""
  /\ UNCHANGED <<fields, disk, pc, engine, calls, used, hist, saved, prev>>

(* ------------------------------ save / load ---------------------------- *)
FieldOrder == <<"index", "documents", "doc_lengths", "total_docs", "vocabulary_size">>
AllFields == {FieldOrder[i] : i \in DOMAIN FieldOrder}

\* index_data of save_index
IndexData(ix, docs, lens, n) ==
  [index |-> ix, documents |-> docs, doc_lengths |-> lens, total_docs |-> n,
   vocabulary_size |-> Len(ix)]

\* what pickle.dump(index_data, f) leaves in the file
Pickled(ix, docs, lens, n) ==
  [kind |-> "pickle", has |-> AllFields, data |-> IndexData(ix, docs, lens, n)]

\* the instance as save_index saw it
Snapshot ==
  [done |-> TRUE, index |-> index, documents |-> documents, doc_lengths |-> doc_lengths,
   total_docs |-> total_docs, stats |-> Statistics(index, doc_lengths, total_docs),
   hist |-> hist]

\* save_index, run to its end
SaveIndex ==
  /\ pc = "idle"
  /\ disk' = Pickled(index, documents, doc_lengths, total_docs)
  /\ saved' = Snapshot
  /\ op' = "save_index"
  /\ arg' = ""
  /\ ret' = Ok(0)
  /\ UNCHANGED <<fields, pc, engine, calls, used, hist, prev>>

\* save_index, step 1: with open(file_path, 'wb') as f: the file is emptied as it is opened
SaveOpen ==
  /\ pc = "idle"
  /\ pc' = "saving"
  /\ disk' = [kind |-> "truncated"]
  /\ prev' = disk
  /\ op' = "save_open"
  /\ arg' = ""
  /\ ret' = Ok(0)
  /\ UNCHANGED <<fields, engine, calls, used, hist, saved>>

\* save_index, step 2: pickle.dump(index_data, f) completes
SaveDump ==
  /\ pc = "saving"
  /\ pc' = "idle"
  /\ disk' = Pickled(index, documents, doc_lengths, total_docs)
  /\ saved' = Snapshot
  /\ prev' = NoFile
  /\ op' = "save_index"
  /\ arg' = ""
  /\ ret' = Ok(0)
  /\ UNCHANGED <<fields, engine, calls, used, hist>>

\* save_index is interrupted inside pickle.dump (an exception, a kill, a full disk)
SaveInterrupt ==
  /\ pc = "saving"
  /\ pc' = "idle"
  /\ op' = "save_interrupted"
  /\ arg' = ""
  /\ ret' = Raise("Interrupted")
  /\ prev' = NoFile
  /\ UNCHANGED <<fields, disk, engine, calls, used, hist, saved>>

\* the first field, in load_index's order of assignment, that the blob lacks (6: none)
RECURSIVE FirstMissing(_, _)
RECURSIVE Replace_Update(_, _)
FirstMissing(has, i) ==
  IF i > Len(FieldOrder) THEN i
  ELSE IF FieldOrder[i] \notin has THEN i ELSE FirstMissing(has, i + 1)

\* how many of its five assignments load_index makes before it raises
Assigned(has) == FirstMissing(has, 1) - 1

\* (a variant that merges the loaded map into the instance's own, as dict.update does)
Replace_Update(cur, new) ==
  IF new = <<>> THEN cur
  ELSE Replace_Update(Put(cur, Head(new).k, Head(new).v), Tail(new))
\* self.documents = index_data['documents'], and the like: the loaded value replaces
\* the instance's own
Replace(cur, new) == new

LoadIndex ==
  /\ pc = "idle"
  /\ op' = "load_index"
  /\ arg' = ""
  /\ IF disk.kind = "absent"
     THEN /\ ret' = Raise("FileNotFoundError")
          /\ UNCHANGED <<fields, hist>>
     ELSE IF disk.kind = "truncated"
     THEN /\ ret' = Raise("UnpicklingError")
          /\ UNCHANGED <<fields, hist>>
     ELSE LET n == Assigned(disk.has)
              d == disk.data
          IN /\ index' = IF n >= 1 THEN Replace(index, d.index) ELSE index
             /\ documents' = IF n >= 2 THEN Replace(documents, d.documents) ELSE documents
             /\ doc_lengths' = IF n >= 3 THEN Replace(doc_lengths, d.doc_lengths) ELSE doc_lengths
             /\ total_docs' = IF n >= 4 THEN d.total_docs ELSE total_docs
             /\ vocabulary_size' = IF n >= 5 THEN d.vocabulary_size ELSE vocabulary_size
             /\ ret' = IF n >= 5 THEN Ok(0) ELSE Raise("KeyError")
             /\ hist' = IF n >= 5 THEN saved.hist ELSE hist
  /\ UNCHANGED <<disk, pc, engine, calls, used, saved, prev>>

\* the file is replaced by a blob of another format version: one field is absent
ForeignFile ==
  /\ pc = "idle"
  /\ disk.kind = "pickle"
  /\ disk.has = AllFields
  /\ \E f \in AllFields : disk' = [disk EXCEPT !.has = AllFields \ {f}]
  /\ op' = "foreign_file"
  /\ arg' = ""
  /\ ret' = Ok(0)
  /\ UNCHANGED <<fields, pc, engine, calls, used, hist, saved, prev>>

(* ---------------------------- RankingModels ---------------------------- *)
Methods == {"tfidf", "vsm", "bm25", "other"}
\* okapi_bm25's defaults: k1 = 1.5 = K1Num / K1Den, b = 0.75 = BNum / BDen
K1Num == 3
K1Den == 2
BNum == 3
BDen == 4

\* sum(self.doc_lengths.values()) / max(1, self.total_docs), kept as a fraction
AvgDocLength(lens, n) == [num |-> SumSeq(Values(lens)), den |-> Max(1, n)]

\* SearchEngine.__init__: pickle.load of the file, then RankingModels(index_data)
NewSearchEngine ==
  /\ pc = "idle"
  /\ op' = "SearchEngine"
  /\ arg' = ""
  /\ IF disk.kind = "absent"
     THEN ret' = Raise("FileNotFoundError") /\ UNCHANGED engine
     ELSE IF disk.kind = "truncated"
     THEN ret' = Raise("UnpicklingError") /\ UNCHANGED engine
     ELSE IF {"index", "doc_lengths", "total_docs"} \subseteq disk.has
     THEN /\ ret' = Ok(0)
          /\ engine' = [built |-> TRUE, has |-> disk.has, index_data |-> disk.data,
                        avg_doc_length |->
                          AvgDocLength(disk.data.doc_lengths, disk.data.total_docs)]
     ELSE ret' = Raise("KeyError") /\ UNCHANGED engine
  /\ UNCHANGED <<fields, disk, pc, calls, used, hist, saved, prev>>

\* scores[doc_id] += x on a defaultdict(float)
AddScore(scores, doc, x) ==
  Put(scores, doc, (IF Has(scores, doc) THEN Get(scores, doc) ELSE 0) + x)

\* scores[doc_id] += x for each entry [k |-> doc_id, v |-> x], in order
RECURSIVE AddAll(_, _)
AddAll(scores, contribs) ==
  IF contribs = <<>> THEN scores
  ELSE AddAll(AddScore(scores, Head(contribs).k, Head(contribs).v), Tail(contribs))

\* (a variant that puts an entry before the entries of equal score)
RECURSIVE InsertDesc_Before(_, _)
InsertDesc_Before(sorted, e) ==
  IF sorted = <<>> THEN <<e>>
  ELSE IF Head(sorted).v > e.v THEN <<Head(sorted)>> \o InsertDesc_Before(Tail(sorted), e)
  ELSE <<e>> \o sorted

\* sorted(scores.items(), key=lambda x: x[1], reverse=True): descending and stable
RECURSIVE InsertDesc(_, _)
InsertDesc(sorted, e) ==
  IF sorted = <<>> THEN <<e>>
  ELSE IF Head(sorted).v >= e.v THEN <<Head(sorted)>> \o InsertDesc(Tail(sorted), e)
  ELSE <<e>> \o sorted
RECURSIVE SortDescFrom(_, _, _)
SortDescFrom(scores, i, sorted) ==
  IF i > Len(scores) THEN sorted
  ELSE SortDescFrom(scores, i + 1, InsertDesc(sorted, scores[i]))
SortDesc(scores) == SortDescFrom(scores, 1, <<>>)

\* the posting map's entries weighted: [k |-> doc_id, v |-> w * len(positions)]
Weighted(inner, w) == [j \in DOMAIN inner |-> [k |-> inner[j].k, v |-> w * Len(inner[j].v)]]

\* calculate_tf_idf's loop over query_tokens, from the i-th token on
RECURSIVE TfIdfFrom(_, _, _, _, _)
TfIdfFrom(ix, n, q, i, scores) ==
  IF i > Len(q) THEN Ok(scores)
  ELSE IF ~Has(ix, q[i]) THEN TfIdfFrom(ix, n, q, i + 1, scores)
  ELSE LET inner == Get(ix, q[i])
       IN IF Len(inner) = 0 THEN Raise("ZeroDivisionError")
          ELSE IF n = 0 THEN Raise("ValueError")
          ELSE TfIdfFrom(ix, n, q, i + 1,
                         AddAll(scores, Weighted(inner, Log(n, Len(inner)))))

\* the query's terms, each once, in order of first occurrence
RECURSIVE Distinct(_)
Distinct(q) ==
  IF q = <<>> THEN <<>>
  ELSE LET d == Distinct(SubSeq(q, 1, Len(q) - 1))
       IN IF \E i \in DOMAIN d : d[i] = q[Len(q)] THEN d ELSE Append(d, q[Len(q)])

\* (a variant that loops over the distinct terms of the query)
CalculateTfIdf_Distinct(e, q) ==
  LET r == TfIdfFrom(e.index_data.index, e.index_data.total_docs, Distinct(q), 1, <<>>)
  IN IF r.exc # "" THEN r ELSE Ok(SortDesc(r.val))

\* (a variant that reads self.index[term] without asking whether the term is a key)
CalculateTfIdf_Unguarded(e, q) ==
  IF \E i \in DOMAIN q : ~Has(e.index_data.index, q[i]) THEN Raise("KeyError")
  ELSE LET r == TfIdfFrom(e.index_data.index, e.index_data.total_docs, q, 1, <<>>)
       IN IF r.exc # "" THEN r ELSE Ok(SortDesc(r.val))

CalculateTfIdf(e, q) ==
  LET r == TfIdfFrom(e.index_data.index, e.index_data.total_docs, q, 1, <<>>)
  IN IF r.exc # "" THEN r ELSE Ok(SortDesc(r.val))

\* the largest r with r * r <= x
RECURSIVE IsqrtIn(_, _, _)
IsqrtIn(x, lo, hi) ==
  IF lo >= hi THEN lo
  ELSE LET mid == (lo + hi + 1) \div 2
       IN IF mid * mid <= x THEN IsqrtIn(x, mid, hi) ELSE IsqrtIn(x, lo, mid - 1)
Isqrt(x) == IsqrtIn(x, 0, 46340)

\* Counter(query_tokens): term -> occurrences, in order of first occurrence
RECURSIVE CounterFrom(_, _, _)
CounterFrom(q, i, c) ==
  IF i > Len(q) THEN c ELSE CounterFrom(q, i + 1, AddScore(c, q[i], 1))
Counter(q) == CounterFrom(q, 1, <<>>)

\* vector_space_model's first loop, over query_tf.items(); the dot products are in
\* millionths (a product of two weights in thousandths)
RECURSIVE VsmDotFrom(_, _, _, _, _)
VsmDotFrom(ix, n, qtf, i, scores) ==
  IF i > Len(qtf) THEN Ok(scores)
  ELSE IF ~Has(ix, qtf[i].k) THEN VsmDotFrom(ix, n, qtf, i + 1, scores)
  ELSE LET inner == Get(ix, qtf[i].k)
       IN IF Len(inner) = 0 THEN Raise("ZeroDivisionError")
          ELSE IF n = 0 THEN Raise("ValueError")
          ELSE LET idf == Log(n, Len(inner))
               IN VsmDotFrom(ix, n, qtf, i + 1,
                             AddAll(scores, Weighted(inner, (qtf[i].v * idf) * idf)))

\* the squared weights of doc over the whole vocabulary, term by term
DocSquares(ix, n, doc) ==
  [i \in DOMAIN ix |->
     IF Has(ix[i].v, doc)
     THEN (Len(Get(ix[i].v, doc)) * Log(n, Len(ix[i].v))) * (Len(Get(ix[i].v, doc)) * Log(n, Len(ix[i].v)))
     ELSE 0]
\* doc_magnitude, in thousandths
DocMagnitude(ix, n, doc) == Isqrt(SumSeq(DocSquares(ix, n, doc)))
\* query_magnitude, in thousandths
QueryMagnitude(qtf) == Isqrt(1000000 * SumSeq([i \in DOMAIN qtf |-> qtf[i].v * qtf[i].v]))

\* the second loop: a score is divided by query_magnitude * doc_magnitude when the
\* document's magnitude is positive, and left as it is otherwise
Normalized(ix, n, qtf, scores) ==
  [i \in DOMAIN scores |->
     LET dm == DocMagnitude(ix, n, scores[i].k)
     IN [k |-> scores[i].k,
         v |-> IF dm > 0 THEN ((scores[i].v \div dm) * 1000) \div QueryMagnitude(qtf)
               ELSE scores[i].v \div 1000]]

VectorSpaceModel(e, q) ==
  LET ix == e.index_data.index
      n == e.index_data.total_docs
      r == VsmDotFrom(ix, n, Counter(q), 1, <<>>)
  IN IF r.exc # "" THEN r ELSE Ok(SortDesc(Normalized(ix, n, Counter(q), r.val)))

\* idf * numerator / denominator of okapi_bm25 for one document, in thousandths, with
\* length_norm = 1 - b + b * (doc_length / avg_doc_length) and avg = avg.num / avg.den
\* numerator = tf * (k1 + 1) and denominator = tf + k1 * length_norm, both multiplied
\* by K1Den * BDen * avg.num to stay in the integers
Bm25Num(tf, avg) == tf * (K1Num + K1Den) * BDen * avg.num
\* (a variant without the length term: length_norm = 1)
Bm25Den_NoLength(tf, doc_length, avg) ==
  tf * K1Den * BDen * avg.num + K1Num * BDen * avg.num
Bm25Den(tf, doc_length, avg) ==
  tf * K1Den * BDen * avg.num
    + K1Num * ((BDen - BNum) * avg.num + BNum * doc_length * avg.den)
Bm25Term(idf, tf, doc_length, avg) ==
  (idf * Bm25Num(tf, avg)) \div Bm25Den(tf, doc_length, avg)

\* okapi_bm25's loop over query_tokens, from the i-th token on
RECURSIVE Bm25From(_, _, _, _, _, _, _)
Bm25From(ix, lens, n, avg, q, i, scores) ==
  IF i > Len(q) THEN Ok(scores)
  ELSE IF ~Has(ix, q[i]) THEN Bm25From(ix, lens, n, avg, q, i + 1, scores)
  ELSE LET inner == Get(ix, q[i])
           idf == Log(2 * n + 2, 2 * Len(inner) + 1)
       IN IF inner = <<>> THEN Bm25From(ix, lens, n, avg, q, i + 1, scores)
          ELSE IF \E j \in DOMAIN inner : ~Has(lens, inner[j].k) THEN Raise("KeyError")
          ELSE IF avg.num = 0 THEN Raise("ZeroDivisionError")
          ELSE Bm25From(ix, lens, n, avg, q, i + 1,
                 AddAll(scores,
                        [j \in DOMAIN inner |->
                           [k |-> inner[j].k,
                            v |-> Bm25Term(idf, Len(inner[j].v), Get(lens, inner[j].k), avg)]]))

OkapiBm25(e, q) ==
  LET r == Bm25From(e.index_data.index, e.index_data.doc_lengths, e.index_data.total_docs,
                    e.avg_doc_length, q, 1, <<>>)
  IN IF r.exc # "" THEN r ELSE Ok(SortDesc(r.val))

\* rank_documents: list(scores.items()) of the chosen method's sorted scores
Rank(e, q, method) ==
  IF method = "tfidf" THEN CalculateTfIdf(e, q)
  ELSE IF method = "vsm" THEN VectorSpaceModel(e, q)
  ELSE IF method = "bm25" THEN OkapiBm25(e, q)
  ELSE Raise("ValueError")

RankDocuments ==
  /\ pc = "idle"
  /\ engine.built
  /\ \E q \in Queries, method \in Methods :
       /\ arg' = [query |-> q, method |-> method]
       /\ ret' = Rank(engine, q, method)
  /\ op' = "rank_documents"
  /\ UNCHANGED <<fields, disk, pc, engine, calls, used, hist, saved, prev>>

(* --------------------- the BM25 formula on its own --------------------- *)
\* the quantities okapi_bm25 holds fixed while it scores the documents of one term:
\* total_docs, the term's document frequency, avg_doc_length = sum of lengths / total_docs
Corpora ==
  {[total_docs |-> n, df |-> d, avg |-> [num |-> sum, den |-> Max(1, n)]] :
     n \in 1..MaxDocs, d \in 1..MaxDocs, sum \in 1..MaxLength}

\* the score of one document for the term, with the parts it is made of
Bm25Point(c, tf, doc_length) ==
  LET idf == Log(2 * c.total_docs + 2, 2 * c.df + 1)
  IN [tf |-> tf, doc_length |-> doc_length, idf |-> idf,
      num |-> Bm25Num(tf, c.avg), den |-> Bm25Den(tf, doc_length, c.avg),
      score |-> Bm25Term(idf, tf, doc_length, c.avg)]

\* okapi_bm25 for a one-term query, on two documents of the same corpus
Bm25Score ==
  /\ pc = "idle"
  /\ op = "init"
  /\ \E tf1, tf2 \in 1..MaxTf, dl1, dl2 \in 0..MaxLength :
       ret' = Ok([x |-> Bm25Point(arg, tf1, dl1), y |-> Bm25Point(arg, tf2, dl2)])
  /\ op' = "okapi_bm25"
  /\ UNCHANGED <<fields, disk, pc, engine, arg, calls, used, hist, saved, prev>>

(* ------------------------- build_inverted_index ------------------------ *)
ArticleFields == {"url", "title", "timestamp", "processed_content"}
\* an article of the JSON file: a complete one, or one that lacks a field
ArticleShapes == {ArticleFields} \cup {ArticleFields \ {f} : f \in ArticleFields}

\* add_document on the four fields it writes, as a record
AddTo(st, doc, tokens, metadata) ==
  [index |-> IndexTokens(st.index, doc, tokens, 1),
   documents |-> Put(st.documents, doc, metadata),
   doc_lengths |-> Put(st.doc_lengths, doc, Len(tokens)),
   total_docs |-> TotalAfterAdd(st.total_docs, Put(st.documents, doc, metadata))]

\* (a variant that stores the metadata before it reads article['processed_content'])
AfterArticle_StoreFirst(st, article, n) ==
  IF ArticleFields \subseteq article.has
  THEN AddTo(st, article.url, article.processed_content, Metadata(article.url, n))
  ELSE IF {"url", "title", "timestamp"} \subseteq article.has
  THEN [st EXCEPT !.documents = Put(st.documents, article.url, Metadata(article.url, n))]
  ELSE st

\* one turn of the loop: article['url'], article['title'], article['timestamp'] and
\* article['processed_content'] are all read before add_document is entered, and a
\* KeyError from any of them is logged and the article passed over
AfterArticle(st, article, n) ==
  IF ArticleFields \subseteq article.has
  THEN AddTo(st, article.url, article.processed_content, Metadata(article.url, n))
  ELSE st

\* build_inverted_index, one article of the file per step, on the index it creates
BuildArticle ==
  /\ pc = "idle"
  /\ op \in {"init", "build_article"}
  /\ \E has \in ArticleShapes :
     \E doc \in (IF "url" \in has THEN DocIds ELSE {""}) :
     \E tokens \in (IF "processed_content" \in has
                    THEN {t \in TokenSeqs : used + Len(t) <= MaxTokens} ELSE {<<>>}) :
       LET article == [has |-> has, url |-> doc, processed_content |-> tokens]
           st == AfterArticle([index |-> index, documents |-> documents,
                               doc_lengths |-> doc_lengths, total_docs |-> total_docs],
                              article, calls + 1)
       IN /\ has = ArticleFields => calls < MaxCalls
          /\ arg' = article
          /\ index' = st.index
          /\ documents' = st.documents
          /\ doc_lengths' = st.doc_lengths
          /\ total_docs' = st.total_docs
          /\ IF has = ArticleFields
             THEN /\ calls' = calls + 1
                  /\ used' = used + Len(tokens)
                  /\ hist' = Append(hist, [doc |-> doc, tokens |-> tokens])
                  /\ ret' = Ok(0)
             ELSE /\ UNCHANGED <<calls, used, hist>>
                  /\ ret' = Raise("KeyError")
  /\ op' = "build_article"
  /\ UNCHANGED <<vocabulary_size, disk, pc, engine, saved, prev>>

\* the end of build_inverted_index: save_index, then get_statistics is returned
BuildFinish ==
  /\ pc = "idle"
  /\ op \in {"init", "build_article"}
  /\ disk' = Pickled(index, documents, doc_lengths, total_docs)
  /\ saved' = Snapshot
  /\ op' = "build_inverted_index"
  /\ arg' = ""
  /\ ret' = Ok(Statistics(index, doc_lengths, total_docs))
  /\ UNCHANGED <<fields, pc, engine, calls, used, hist, prev>>

(* ----------------------------- SearchEngine ----------------------------- *)
\* the words of a query text
RawWords == {"A", "b"}
Texts == SeqsUpTo(RawWords, MaxQuery)

\* clean_text on one word: text.lower()
CleanWord(w) == IF w = "A" THEN "a" ELSE w
\* process_text: the cleaned words in order (none of them a stopword, each its own lemma)
ProcessText(text) == [i \in DOMAIN text |-> CleanWord(text[i])]

\* (a variant whose slice keeps one entry more)
Take_Inclusive(s, n) == SubSeq(s, 1, IF n + 1 < Len(s) THEN n + 1 ELSE Len(s))

\* s[:n]
Take(s, n) ==
  IF n >= 0 THEN SubSeq(s, 1, IF n < Len(s) THEN n ELSE Len(s))
  ELSE SubSeq(s, 1, Max(0, Len(s) + n))

\* search: the first max_results ranked entries, each doc_id replaced by
\* index_data['documents'][doc_id]
SearchResults(e, text, method, max_results) ==
  LET r == Rank(e, ProcessText(text), method)
      top == Take(r.val, max_results)
      docs == e.index_data.documents
  IN IF r.exc # "" THEN r
     ELSE IF top # <<>> /\ "documents" \notin e.has THEN Raise("KeyError")
     ELSE IF \E i \in DOMAIN top : ~Has(docs, top[i].k) THEN Raise("KeyError")
     ELSE Ok([i \in DOMAIN top |-> [metadata |-> Get(docs, top[i].k), score |-> top[i].v]])

Search ==
  /\ pc = "idle"
  /\ engine.built
  /\ \E text \in Texts, method \in Methods, max_results \in 1..MaxResults :
       /\ arg' = [query |-> text, method |-> method, max_results |-> max_results]
       /\ ret' = SearchResults(engine, text, method, max_results)
  /\ op' = "search"
  /\ UNCHANGED <<fields, disk, pc, engine, calls, used, hist, saved, prev>>

(* ------------------------------ specification -------------------------- *)
Init ==
  /\ index = <<>>
  /\ documents = <<>>
  /\ doc_lengths = <<>>
  /\ total_docs = 0
  /\ vocabulary_size = 0
  /\ disk = NoFile
  /\ pc = "idle"
  /\ engine = NoEngine
  /\ op = "init"
  /\ arg = ""
  /\ ret = Ok(0)
  /\ calls = 0
  /\ used = 0
  /\ hist = <<>>
  /\ saved = NoSave
  /\ prev = NoFile

\* the index used as a library: build, query, save, load, in any order
Next ==
  \/ AddDocument
  \/ GetDocumentFrequency
  \/ GetTfIdf
  \/ GetStatistics
  \/ SaveIndex
  \/ LoadIndex

Spec == Init /\ [][Next]_vars

\* the index and its file: a save that can be interrupted between opening the file and
\* the end of the write, and files of another format version at the path
NextFiles ==
  \/ AddDocument
  \/ SaveOpen
  \/ SaveDump
  \/ SaveInterrupt
  \/ LoadIndex
  \/ ForeignFile

SpecFiles == Init /\ [][NextFiles]_vars

\* the program's pipeline: the index is built and saved, a SearchEngine is constructed
\* from the file, and from then on only queries are made
NextSearch ==
  \/ ~engine.built /\ AddDocument
  \/ ~engine.built /\ GetDocumentFrequency
  \/ ~engine.built /\ SaveIndex
  \/ ~engine.built /\ NewSearchEngine
  \/ RankDocuments

SpecSearch == Init /\ [][NextSearch]_vars

\* the pipeline again, kept small: the engine is constructed from the file a save has
\* just written, and the first query put to it is recorded (a query leaves the engine
\* as it was, so a later one is answered like a first one)
NextRank ==
  \/ ~engine.built /\ AddDocument
  \/ ~engine.built /\ GetDocumentFrequency
  \/ ~engine.built /\ SaveIndex
  \/ ~engine.built /\ op = "save_index" /\ NewSearchEngine
  \/ op = "SearchEngine" /\ RankDocuments

SpecRank == Init /\ [][NextRank]_vars

\* the BM25 formula applied to inputs drawn from the bounded sets
InitBm25 ==
  /\ index = <<>>
  /\ documents = <<>>
  /\ doc_lengths = <<>>
  /\ total_docs = 0
  /\ vocabulary_size = 0
  /\ disk = NoFile
  /\ pc = "idle"
  /\ engine = NoEngine
  /\ op = "init"
  /\ arg \in {c \in Corpora : c.df <= c.total_docs}
  /\ ret = Ok(0)
  /\ calls = 0
  /\ used = 0
  /\ hist = <<>>
  /\ saved = NoSave
  /\ prev = NoFile

NextBm25 == Bm25Score

SpecBm25 == InitBm25 /\ [][NextBm25]_vars

\* one run of build_inverted_index over a file of articles
NextBuild ==
  \/ BuildArticle
  \/ BuildFinish

SpecBuild == Init /\ [][NextBuild]_vars

\* search in the place of rank_documents, on an index built by add_document calls
NextEngine ==
  \/ ~engine.built /\ AddDocument
  \/ ~engine.built /\ SaveIndex
  \/ ~engine.built /\ op = "save_index" /\ NewSearchEngine
  \/ op = "SearchEngine" /\ Search

SpecEngine == Init /\ [][NextEngine]_vars

(* ------------------------------- claims -------------------------------- *)
Range(seq) == {seq[i] : i \in DOMAIN seq}
\* the calls, among those that built the current contents, whose tokens held the term
CallsWith(term) == {i \in DOMAIN hist : term \in Range(hist[i].tokens)}
QueryOps == {"get_document_frequency", "get_tf_idf", "get_statistics",
             "rank_documents", "search"}

\* C1, as stated: total_docs counts the add_document calls made on the instance: every
\* call adds exactly one and no other operation changes it.
C1_OnlyAddChangesTotal ==
  [][/\ (op' = "add_document" => total_docs' = total_docs + 1)
     /\ (op' # "add_document" => total_docs' = total_docs)]_vars

\* C1, amended: every add_document call adds exactly one to total_docs (a repeated
\* doc_id and an empty token list included); a load_index that succeeds sets it to the
\* saved value; no other operation changes it; so total_docs is the number of
\* add_document calls that built the instance's current contents.
C1_TotalDocsCountsCalls ==
  [][/\ (op' = "add_document" => total_docs' = total_docs + 1)
     /\ (op' = "load_index" /\ ret'.exc = "" => total_docs' = saved.total_docs)
     /\ (op' \notin {"add_document", "load_index"} => total_docs' = total_docs)
     /\ total_docs' = Len(hist')]_vars

\* two calls for one doc_id, one of them with no tokens, have just been counted
C1_Witness ==
  /\ op = "add_document"
  /\ total_docs = 2
  /\ Len(documents) = 1
  /\ \E i \in DOMAIN hist : hist[i].tokens = <<>>

\* C2, as stated: document_frequency(term) is the number of add_document calls whose
\* tokens held the term, also when calls repeat a doc_id.
C2_FrequencyCountsCalls ==
  op = "get_document_frequency" => ret.val = Cardinality(CallsWith(arg))

\* C2, amended: document_frequency(term) is the number of distinct doc_ids among the
\* add_document calls whose tokens held the term (calls that repeat a doc_id count once).
C2_FrequencyCountsDocIds ==
  op = "get_document_frequency" =>
    ret.val = Cardinality({hist[i].doc : i \in CallsWith(arg)})

\* the frequency of a term that two calls for the same doc_id both held
C2_Witness ==
  /\ op = "get_document_frequency"
  /\ ret.val = 1
  /\ Cardinality(CallsWith(arg)) = 2

\* C3: every posting is an ascending sequence of zero-based positions of its document,
\* also after a doc_id was inserted more than once.
C3_PostingsAscending ==
  \A i \in DOMAIN index : \A j \in DOMAIN index[i].v :
    LET positions == index[i].v[j].v
    IN /\ \A m, n \in DOMAIN positions : m < n => positions[m] < positions[n]
       /\ \A m \in DOMAIN positions :
            positions[m] >= 0 /\ positions[m] < Get(doc_lengths, index[i].v[j].k)

\* C4: idf(term) returns 0 and raises nothing for a term that occurs in no indexed
\* document, whatever was called before it.
C4_IdfOfUnseenTermIsZero ==
  (op = "get_tf_idf" /\ CallsWith(arg) = {}) => ret = Ok(0)

\* C5: the query operations leave index, documents, doc_lengths, total_docs and the set
\* of terms keyed in the index as they were.
C5_QueriesReadOnly ==
  [][op' \in QueryOps =>
       /\ UNCHANGED <<index, documents, doc_lengths, total_docs>>
       /\ Keys(index') = Keys(index)]_vars

\* C6: the field vocabulary_size is the number of distinct terms held in the index.
C6_VocabularySizeField == vocabulary_size = Len(index)

\* C7: after save and then a load that succeeds, the loading instance holds the saved
\* instance's postings, documents and doc_lengths, its statistics() is the saved one's,
\* and nothing of what it held before the load remains.
C7_RoundTrip ==
  (op = "load_index" /\ ret.exc = "") =>
    /\ index = saved.index
    /\ documents = saved.documents
    /\ doc_lengths = saved.doc_lengths
    /\ Statistics(index, doc_lengths, total_docs) = saved.stats

\* a load into an instance that had taken other documents after the save
C7_Witness ==
  /\ op = "load_index"
  /\ ret.exc = ""
  /\ index # <<>>
  /\ calls > Len(hist)

\* C8: a load_index that fails leaves index, documents, doc_lengths, total_docs and
\* vocabulary_size as they were before the call.
C8_FailedLoadChangesNothing ==
  [][op' = "load_index" /\ ret'.exc # "" => UNCHANGED fields]_vars

\* C9: a save interrupted over a valid persisted index leaves at the path either that
\* index or the complete new one.
C9_InterruptedSaveKeepsFile ==
  [][(op' = "save_interrupted" /\ prev.kind = "pickle" /\ prev.has = AllFields) =>
       disk' \in {prev, Pickled(index, documents, doc_lengths, total_docs)}]_vars

\* the documents holding a posting for a query term that is a key of the engine's index
Matching(q) ==
  {d \in DocIds : \E t \in Range(q) :
     Has(engine.index_data.index, t) /\ Has(Get(engine.index_data.index, t), d)}

\* a ranking: scores never increase, no doc_id twice, exactly the matching documents
IsRankingOf(r, q) ==
  /\ \A m, n \in DOMAIN r : m < n => r[m].v >= r[n].v /\ r[m].k # r[n].k
  /\ {r[m].k : m \in DOMAIN r} = Matching(q)

\* C10: for each of tfidf, vsm and bm25 and for every query, rank_documents returns the
\* matching documents, each once, with scores that never increase.
C10_RankDocumentsRanks ==
  (op = "rank_documents" /\ arg.method # "other") =>
    ret.exc = "" /\ IsRankingOf(ret.val, arg.query)

\* C11: a query none of whose terms is a key of the index gets an empty result from
\* each of tfidf, vsm and bm25, and no error.
C11_AbsentTermsScoreNothing ==
  (/\ op = "rank_documents"
   /\ arg.method # "other"
   /\ \A t \in Range(arg.query) : ~Has(engine.index_data.index, t)) =>
    ret.exc = "" /\ ret.val = <<>>

\* such a query, not empty, put to an engine whose index holds documents and also a term
\* with an empty posting map
C11_Witness ==
  /\ op = "rank_documents"
  /\ arg.method = "tfidf"
  /\ arg.query # <<>>
  /\ \A t \in Range(arg.query) : ~Has(engine.index_data.index, t)
  /\ engine.index_data.index # <<>>
  /\ ret.exc = ""
  /\ ret.val = <<>>

\* C12, as stated: the TF-IDF scores of a query are those of the same query with its
\* duplicate tokens removed.
C12_DuplicatesCountOnce ==
  (op = "rank_documents" /\ arg.method = "tfidf") =>
    LET r == CalculateTfIdf(engine, Distinct(arg.query))
    IN ret.exc = r.exc /\ (ret.exc = "" => Range(ret.val) = Range(r.val))

\* tf * idf of the query's i-th token in doc, 0 where the token is not in doc
TokenWeight(q, i, doc) ==
  LET ix == engine.index_data.index
  IN IF Has(ix, q[i]) /\ Has(Get(ix, q[i]), doc)
     THEN Len(Get(Get(ix, q[i]), doc)) * Log(engine.index_data.total_docs, Len(Get(ix, q[i])))
     ELSE 0

\* C12, amended: TF-IDF adds one contribution tf * idf per query token, duplicates
\* included: a matching document's score is the sum of the contributions over the
\* positions of the query, and the call raises ZeroDivisionError exactly when a query
\* term is a key of the index with an empty posting map.
C12_ContributionPerToken ==
  (op = "rank_documents" /\ arg.method = "tfidf") =>
    IF \E t \in Range(arg.query) :
         Has(engine.index_data.index, t) /\ Get(engine.index_data.index, t) = <<>>
    THEN ret.exc = "ZeroDivisionError"
    ELSE /\ ret.exc = ""
         /\ {ret.val[m].k : m \in DOMAIN ret.val} = Matching(arg.query)
         /\ \A m \in DOMAIN ret.val :
              ret.val[m].v = SumSeq([i \in DOMAIN arg.query |->
                                       TokenWeight(arg.query, i, ret.val[m].k)])

\* a query that repeats a term of positive weight, scored twice the single weight
C12_Witness ==
  /\ op = "rank_documents"
  /\ arg.method = "tfidf"
  /\ arg.query = <<"a", "a">>
  /\ ret.exc = ""
  /\ \E m \in DOMAIN ret.val :
       /\ ret.val[m].v > 0
       /\ ret.val[m].v = 2 * TokenWeight(arg.query, 1, ret.val[m].k)

\* the metadata of the last of the saved calls made with doc
LastMetadata(doc) ==
  LET is == {i \in DOMAIN saved.hist : saved.hist[i].doc = doc}
  IN Metadata(doc, CHOOSE i \in is : \A j \in is : j <= i)

\* C13: search with a positive max_results returns the first min(max_results, number
\* of ranked documents) entries that rank_documents gives for the tokenized query, in
\* that order, each with the metadata of the last add_document call made for its doc_id
\* and its score as ranked; it raises what rank_documents raises.
C13_SearchIsRankPrefix ==
  op = "search" =>
    LET r == Rank(engine, ProcessText(arg.query), arg.method)
    IN IF r.exc # "" THEN ret.exc = r.exc
       ELSE /\ ret.exc = ""
            /\ Len(ret.val) = (IF arg.max_results < Len(r.val) THEN arg.max_results
                               ELSE Len(r.val))
            /\ \A i \in DOMAIN ret.val :
                 /\ ret.val[i].score = r.val[i].v
                 /\ ret.val[i].metadata = LastMetadata(r.val[i].k)

\* a search that cut a ranking of two documents down to one, for a text that the
\* tokenizer changed
C13_Witness ==
  /\ op = "search"
  /\ arg.max_results = 1
  /\ "A" \in Range(arg.query)
  /\ ret.exc = ""
  /\ Len(ret.val) = 1
  /\ Len(Rank(engine, ProcessText(arg.query), arg.method).val) = 2

\* the four fields after add_document calls made in the order of h on a new index
RECURSIVE IndexOf(_)
IndexOf(h) ==
  IF h = <<>> THEN [index |-> <<>>, documents |-> <<>>, doc_lengths |-> <<>>, total_docs |-> 0]
  ELSE AddTo(IndexOf(SubSeq(h, 1, Len(h) - 1)), h[Len(h)].doc, h[Len(h)].tokens,
             Metadata(h[Len(h)].doc, Len(h)))

\* C14: in a batch build an article that lacks url, title, timestamp or
\* processed_content leaves index, documents, doc_lengths and total_docs as they were;
\* the articles after it are indexed; and the index built and saved is the one that the
\* complete articles alone, in their order, give.
C14_DefectiveArticlesSkipped ==
  [][/\ (op' = "build_article" /\ arg'.has # ArticleFields) => fields' = fields
     /\ op' = "build_article" =>
          [index |-> index', documents |-> documents', doc_lengths |-> doc_lengths',
           total_docs |-> total_docs'] = IndexOf(hist')
     /\ op' = "build_inverted_index" =>
          /\ disk'.kind = "pickle"
          /\ [index |-> disk'.data.index, documents |-> disk'.data.documents,
              doc_lengths |-> disk'.data.doc_lengths,
              total_docs |-> disk'.data.total_docs] = IndexOf(hist')
          /\ ret'.val.total_documents = Len(hist')]_vars

\* an article without processed_content passed over, after a complete one was indexed
C14_Witness ==
  /\ op = "build_article"
  /\ arg.has = ArticleFields \ {"processed_content"}
  /\ ret.exc = "KeyError"
  /\ hist # <<>>
  /\ total_docs = Len(hist)
  /\ index # <<>>

\* C15: with avg_doc_length, total_docs and the document frequency fixed, the BM25
\* score of a document for one term is strictly greater for a greater term frequency
\* at the same length, and strictly smaller for a greater length at the same term
\* frequency (the scores compared as exact fractions idf * num / den, idf > 0; the
\* scores in thousandths never in the opposite order).
C15_Bm25Monotone ==
  op = "okapi_bm25" =>
    LET x == ret.val.x
        y == ret.val.y
    IN /\ x.idf > 0 /\ x.den > 0 /\ y.den > 0
       /\ (x.doc_length = y.doc_length /\ x.tf < y.tf) =>
            x.num * y.den < y.num * x.den /\ x.score <= y.score
       /\ (x.tf = y.tf /\ x.doc_length < y.doc_length) =>
            x.num * y.den > y.num * x.den /\ x.score >= y.score

\* two documents scored in one corpus: the one with the greater term frequency at the
\* same length, and the shorter one at the same term frequency, get the greater score
C15_Witness ==
  /\ op = "okapi_bm25"
  /\ \/ /\ ret.val.x.doc_length = ret.val.y.doc_length
        /\ ret.val.x.tf < ret.val.y.tf
        /\ ret.val.x.score < ret.val.y.score
     \/ /\ ret.val.x.tf = ret.val.y.tf
        /\ ret.val.x.doc_length < ret.val.y.doc_length
        /\ ret.val.x.score > ret.val.y.score

\* C16: the average document length a RankingModels instance holds is the mean of the
\* values of doc_lengths, and 0 when there are none.
C16_AvgIsMeanOfLengths ==
  engine.built =>
    LET lens == engine.index_data.doc_lengths
        avg == engine.avg_doc_length
    IN IF lens = <<>> THEN avg.num = 0
       ELSE avg.num * Len(lens) = SumSeq(Values(lens)) * avg.den

\* C17: okapi_bm25 never divides by zero, whatever the query and the saved index.
C17_Bm25NeverDividesByZero ==
  (op = "rank_documents" /\ arg.method = "bm25") => ret.exc # "ZeroDivisionError"

\* the engine that the add_document calls of h alone, saved and loaded, give
EngineOf(h) ==
  LET st == IndexOf(h)
  IN [built |-> TRUE, has |-> AllFields,
      index_data |-> IndexData(st.index, st.documents, st.doc_lengths, st.total_docs),
      avg_doc_length |-> AvgDocLength(st.doc_lengths, st.total_docs)]

\* the position of the first query token whose posting map holds doc
FirstToken(q, doc) ==
  CHOOSE i \in DOMAIN q :
    /\ Has(engine.index_data.index, q[i]) /\ Has(Get(engine.index_data.index, q[i]), doc)
    /\ \A j \in 1..(i - 1) :
         ~(Has(engine.index_data.index, q[j]) /\ Has(Get(engine.index_data.index, q[j]), doc))
\* the place of doc in the posting map of that token
PlaceIn(q, doc) ==
  LET inner == Get(engine.index_data.index, q[FirstToken(q, doc)])
  IN CHOOSE j \in DOMAIN inner : inner[j].k = doc
\* d got its first score contribution before e did
ScoredBefore(q, d, e) ==
  \/ FirstToken(q, d) < FirstToken(q, e)
  \/ FirstToken(q, d) = FirstToken(q, e) /\ PlaceIn(q, d) < PlaceIn(q, e)

\* C18: the sequence rank_documents returns is fixed by the add_document calls, the
\* query and the method (it is the one the calls alone give, whatever else was done to
\* the index), and documents of equal score stand in the order in which they first got
\* a score contribution: by query token, then by place in the token's posting map.
C18_TiesInContributionOrder ==
  (op = "rank_documents" /\ arg.method # "other" /\ ret.exc = "") =>
    /\ LET r == Rank(EngineOf(saved.hist), arg.query, arg.method)
       IN r.exc = "" /\ r.val = ret.val
    /\ \A i, j \in DOMAIN ret.val :
         (i < j /\ ret.val[i].v = ret.val[j].v) =>
           ScoredBefore(arg.query, ret.val[i].k, ret.val[j].k)

\* two documents of equal score, the one added first, d2, ranked first
C18_Witness ==
  /\ op = "rank_documents"
  /\ arg.method \in {"tfidf", "bm25"}
  /\ ret.exc = ""
  /\ Len(ret.val) = 2
  /\ ret.val[1].v = ret.val[2].v
  /\ ret.val[1].k = "d2"
  /\ saved.hist[1].doc = "d2"

=============================================================================
